---- MODULE Spec2Model ----
(***************************************************************************)
(* Model of the user-account service of main.py / models.py: the handlers  *)
(* signup, login and get_users, the per-request session of get_db and the  *)
(* users table with its uniqueness constraints.                            *)
(*                                                                         *)
(* Handlers are coroutines on one event loop: the code between two awaits  *)
(* touches only the handler's own locals, so every action below is one     *)
(* database round trip (db.execute, db.commit, db.refresh, session.close)  *)
(* together with the synchronous code around it, the except clause of the  *)
(* handler included.  Any number of requests may be in flight.             *)
(*                                                                         *)
(* The request models UserCreate and UserLogin are known only through the  *)
(* attributes the handlers read; login's annotation names UserLogin, which *)
(* main.py never imports.  The handler bodies are modelled as written.     *)
(***************************************************************************)
EXTENDS Integers, FiniteSets, Sequences, TLC

VARIABLES users, seq, pc, kind, req, existing_user, new_user, resp,
          sessions, faults

vars == <<users, seq, pc, kind, req, existing_user, new_user, resp,
          sessions, faults>>

(* ------------------------------ bounds --------------------------------- *)

MaxReqs == 3

MaxUsernames == 2

MaxEmails == 2

MaxPasswords == 2

MaxFaults == 1

Reqs == 1..MaxReqs

UsernamePool == <<"alice", "bob", "carol", "dave">>

EmailPool == <<"alice@x.com", "bob@x.com", "carol@x.com", "dave@x.com">>

PasswordPool == <<"pw123", "wrongpw", "hunter2", "letmein">>

Usernames == {UsernamePool[i] : i \in 1..MaxUsernames}

Emails == {EmailPool[i] : i \in 1..MaxEmails}

Passwords == {PasswordPool[i] : i \in 1..MaxPasswords}

(* --------------------------- values and helpers ------------------------ *)

\* a local name that has not been assigned yet
Unbound == [tag |-> "unbound"]

\* Python's None (scalar_one_or_none() found no row; id before the flush)
None == [tag |-> "None"]

NoRequest == [tag |-> "no request"]

NoResponse == [tag |-> "no response"]

IsRow(x) == x # Unbound /\ x # None

\* request bodies: the attributes signup reads from `user`
UserCreate == [username : Usernames, email : Emails, password : Passwords]

\* request bodies: the attributes login reads from `user_login`
UserLogin == [email : Emails, password : Passwords]

\* passlib's bcrypt.hash: a one-way digest of the secret (the salt, which no
\* handler inspects, is left out)
bcrypt_hash(secret) == [alg |-> "bcrypt", secret |-> secret]

\* passlib's bcrypt.verify: hash the candidate and compare with the digest
bcrypt_verify(secret, digest) == bcrypt_hash(secret) = digest

\* raise HTTPException(status_code=..., detail=...)
HTTPException(status_code, detail) ==
    [type |-> "HTTPException", status_code |-> status_code, detail |-> detail]

\* an unexpected fault raised by the database driver
OperationalError == [type |-> "OperationalError", msg |-> "connection lost"]

\* an unexpected fault raised by the password hasher
HashError == [type |-> "ValueError", msg |-> "invalid secret"]

\* the violation of a unique constraint, raised by the flush inside commit
IntegrityError == [type |-> "IntegrityError", msg |-> "duplicate key value"]

\* str(e): Starlette's HTTPException prints "<status_code>: <detail>",
\* every other exception prints its message
str(e) ==
    IF e.type = "HTTPException"
    THEN ToString(e.status_code) \o ": " \o e.detail
    ELSE e.msg

\* the response FastAPI sends for a raised HTTPException
ErrorResponse(e) == [status |-> e.status_code, body |-> [detail |-> e.detail]]

\* the response FastAPI sends for a returned value
OkResponse(body) == [status |-> 200, body |-> body]

\* response_model=UserResponse: the public fields of a row
UserResponse(u) == [id |-> u.id, username |-> u.username, email |-> u.email]

\* select(User).filter(User.email == email) ... scalar_one_or_none()
SelectByEmail(email) ==
    IF \E u \in users : u.email = email
    THEN CHOOSE u \in users : u.email = email
    ELSE None

\* NewUser with the username and email arguments swapped
NewUser_Swapped(user, hashed_password) ==
    [id |-> 0, username |-> user.email, email |-> user.username,
     password |-> hashed_password]

\* User(username=..., email=..., password=...): id is None until the flush
NewUser(user, hashed_password) ==
    [id |-> 0, username |-> user.username, email |-> user.email,
     password |-> hashed_password]

\* UniqueViolation with unique=True missing on username
UniqueViolation_EmailOnly(row) == \E u \in users : u.email = row.email

\* unique=True on username and on email (models.py)
UniqueViolation(row) ==
    \E u \in users : u.username = row.username \/ u.email = row.email

\* the except clause of signup: rollback, then 500 with the exception text
SignupExcept(e) ==
    ErrorResponse(HTTPException(500, "Internal server error: " \o str(e)))

\* the except clause of login: 500 with the exception text
LoginExcept(e) ==
    ErrorResponse(HTTPException(500, "Internal server error: " \o str(e)))

\* the except clause of get_users
GetUsersExcept(e) ==
    ErrorResponse(HTTPException(500, "Error fetching users: " \o str(e)))

\* raise HTTPException(400, "Email already registered")
DuplicateEmail == HTTPException(400, "Email already registered")

\* LoginNotFound with a message of its own
LoginNotFound_Distinct == HTTPException(404, "User not found")

\* raise HTTPException(400, ...) when the email matches no row
LoginNotFound == HTTPException(400, "Invalid email or password")

\* raise HTTPException(400, ...) when bcrypt.verify returns False
LoginBadPassword == HTTPException(400, "Invalid email or password")

\* LoginBody returning every column of the row
LoginBody_WholeRow(u) == u

\* the dict login returns on success
LoginBody(u) == [id |-> u.id, username |-> u.username, email |-> u.email]

\* CloseSession that closes only after a successful response
CloseSession_OnSuccessOnly(r, open) ==
    IF resp[r].status = 200 THEN open \ {r} ELSE open

\* session.close() in the finally clause of get_db
CloseSession(r, open) == open \ {r}

\* whether one more fault may be injected
MayFault == faults < MaxFaults

(* ------------------------------- state --------------------------------- *)

Init ==
    /\ users = {}
    /\ seq = 1
    /\ pc = [r \in Reqs |-> "idle"]
    /\ kind = [r \in Reqs |-> "none"]
    /\ req = [r \in Reqs |-> NoRequest]
    /\ existing_user = [r \in Reqs |-> Unbound]
    /\ new_user = [r \in Reqs |-> Unbound]
    /\ resp = [r \in Reqs |-> NoResponse]
    /\ sessions = {}
    /\ faults = 0

\* requests are anonymous: slot r is used only after slot r-1
MayStart(r) == pc[r] = "idle" /\ \A q \in 1..(r - 1) : pc[q] # "idle"

\* a request arrives: FastAPI resolves Depends(get_db), which opens a session
get_db(r, k, body, first) ==
    /\ MayStart(r)
    /\ kind' = [kind EXCEPT ![r] = k]
    /\ req' = [req EXCEPT ![r] = body]
    /\ sessions' = sessions \cup {r}
    /\ pc' = [pc EXCEPT ![r] = first]
    /\ UNCHANGED <<users, seq, existing_user, new_user, resp, faults>>

PostSignup(r) == \E user \in UserCreate : get_db(r, "signup", user, "lookup")

PostLogin(r) == \E user_login \in UserLogin : get_db(r, "login", user_login, "verify")

GetUsersRequest(r) == get_db(r, "get_users", NoRequest, "list")

\* the handler's exit with an exception: the response is the error
Raise(r, response) ==
    /\ resp' = [resp EXCEPT ![r] = response]
    /\ pc' = [pc EXCEPT ![r] = "close"]

\* signup, lines 76-97: the duplicate pre-check, the hash, db.add
SignupLookup(r) ==
    /\ kind[r] = "signup" /\ pc[r] = "lookup"
    /\ \/ /\ MayFault
          /\ Raise(r, SignupExcept(OperationalError))
          /\ faults' = faults + 1
          /\ UNCHANGED <<existing_user, new_user>>
       \/ /\ MayFault
          /\ SelectByEmail(req[r].email) = None
          /\ existing_user' = [existing_user EXCEPT ![r] = None]
          /\ Raise(r, SignupExcept(HashError))
          /\ faults' = faults + 1
          /\ UNCHANGED new_user
       \/ /\ existing_user' = [existing_user EXCEPT ![r] = SelectByEmail(req[r].email)]
          /\ IF SelectByEmail(req[r].email) # None
             THEN /\ Raise(r, SignupExcept(DuplicateEmail))
                  /\ UNCHANGED new_user
             ELSE /\ new_user' = [new_user EXCEPT ![r] =
                                    NewUser(req[r], bcrypt_hash(req[r].password))]
                  /\ pc' = [pc EXCEPT ![r] = "commit"]
                  /\ UNCHANGED resp
          /\ UNCHANGED faults
    /\ UNCHANGED <<users, seq, kind, req, sessions>>

\* signup, line 98: db.commit() flushes the INSERT and commits
SignupCommit(r) ==
    /\ kind[r] = "signup" /\ pc[r] = "commit"
    /\ \/ /\ MayFault
          /\ Raise(r, SignupExcept(OperationalError))
          /\ faults' = faults + 1
          /\ UNCHANGED <<users, seq, new_user>>
       \/ /\ UniqueViolation(new_user[r])
          /\ Raise(r, SignupExcept(IntegrityError))
          /\ seq' = seq + 1
          /\ UNCHANGED <<users, new_user, faults>>
       \/ /\ ~UniqueViolation(new_user[r])
          /\ new_user' = [new_user EXCEPT ![r].id = seq]
          /\ users' = users \cup {[new_user[r] EXCEPT !.id = seq]}
          /\ seq' = seq + 1
          /\ pc' = [pc EXCEPT ![r] = "refresh"]
          /\ UNCHANGED <<resp, faults>>
    /\ UNCHANGED <<kind, req, existing_user, sessions>>

\* signup, lines 99-102: db.refresh(new_user), return new_user
SignupRefresh(r) ==
    /\ kind[r] = "signup" /\ pc[r] = "refresh"
    /\ \/ /\ MayFault
          /\ Raise(r, SignupExcept(OperationalError))
          /\ faults' = faults + 1
       \/ /\ Raise(r, OkResponse(UserResponse(new_user[r])))
          /\ UNCHANGED faults
    /\ UNCHANGED <<users, seq, kind, req, existing_user, new_user, sessions>>

\* login, lines 123-150
Login(r) ==
    /\ kind[r] = "login" /\ pc[r] = "verify"
    /\ \/ /\ MayFault
          /\ Raise(r, LoginExcept(OperationalError))
          /\ faults' = faults + 1
          /\ UNCHANGED existing_user
       \/ /\ existing_user' = [existing_user EXCEPT ![r] = SelectByEmail(req[r].email)]
          /\ LET u == SelectByEmail(req[r].email) IN
             IF u = None
             THEN Raise(r, LoginExcept(LoginNotFound))
             ELSE IF ~bcrypt_verify(req[r].password, u.password)
                  THEN Raise(r, LoginExcept(LoginBadPassword))
                  ELSE Raise(r, OkResponse(LoginBody(u)))
          /\ UNCHANGED faults
    /\ UNCHANGED <<users, seq, kind, req, new_user, sessions>>

\* get_users, lines 111-118
GetUsers(r) ==
    /\ kind[r] = "get_users" /\ pc[r] = "list"
    /\ \/ /\ MayFault
          /\ Raise(r, GetUsersExcept(OperationalError))
          /\ faults' = faults + 1
       \/ /\ Raise(r, OkResponse({UserResponse(u) : u \in users}))
          /\ UNCHANGED faults
    /\ UNCHANGED <<users, seq, kind, req, existing_user, new_user, sessions>>

\* get_db, lines 63-64: the finally clause closes the session
get_db_close(r) ==
    /\ pc[r] = "close"
    /\ sessions' = CloseSession(r, sessions)
    /\ pc' = [pc EXCEPT ![r] = "done"]
    /\ UNCHANGED <<users, seq, kind, req, existing_user, new_user, resp, faults>>

Next ==
    \E r \in Reqs :
        \/ PostSignup(r)
        \/ PostLogin(r)
        \/ GetUsersRequest(r)
        \/ SignupLookup(r)
        \/ SignupCommit(r)
        \/ SignupRefresh(r)
        \/ Login(r)
        \/ GetUsers(r)
        \/ get_db_close(r)

Spec == Init /\ [][Next]_vars

(* ------------------------------ properties ----------------------------- *)

\* the handler of request r has produced its response
Responded(r) == pc[r] \in {"close", "done"}

\* the step is r's, leaves position `at` and injects no fault
StepOf(r, k, at) ==
    kind[r] = k /\ pc[r] = at /\ pc'[r] # at /\ faults' = faults

EmailTaken(email) == \E u \in users : u.email = email

UsernameTaken(username) == \E u \in users : u.username = username

\* C1: a signup whose email is the email of an existing row responds 400
\* "Email already registered" and inserts no row.
C1_DuplicateEmailIs400 ==
    \A r \in Reqs :
        (kind[r] = "signup" /\ Responded(r) /\ IsRow(existing_user[r])) =>
            /\ resp[r] = [status |-> 400,
                          body |-> [detail |-> "Email already registered"]]
            /\ new_user[r] = Unbound

\* C2: a login whose email matches no row, and a login whose password does
\* not verify against the row's digest, respond 400 "Invalid email or
\* password".
C2_InvalidCredentialsIs400 ==
    \A r \in Reqs :
        (/\ kind[r] = "login" /\ Responded(r)
         /\ \/ existing_user[r] = None
            \/ /\ IsRow(existing_user[r])
               /\ ~bcrypt_verify(req[r].password, existing_user[r].password)) =>
            resp[r] = [status |-> 400,
                       body |-> [detail |-> "Invalid email or password"]]

\* C3: of two signups with the same, previously unused email, interleaved in
\* any order (no other signup, no fault), exactly one succeeds and the other
\* responds 400 "Email already registered".
C3_RaceOneWinsOtherDuplicate ==
    \A r1, r2 \in Reqs :
        (/\ r1 # r2 /\ faults = 0
         /\ kind[r1] = "signup" /\ kind[r2] = "signup"
         /\ \A r3 \in Reqs \ {r1, r2} : kind[r3] # "signup"
         /\ req[r1].email = req[r2].email
         /\ Responded(r1) /\ Responded(r2)) =>
            \/ /\ resp[r1].status = 200
               /\ resp[r2] = [status |-> 400,
                              body |-> [detail |-> "Email already registered"]]
            \/ /\ resp[r2].status = 200
               /\ resp[r1] = [status |-> 400,
                              body |-> [detail |-> "Email already registered"]]

\* the commit of r inserts r's row with a store-assigned id
Inserted(r) ==
    /\ pc'[r] = "refresh"
    /\ \E u \in users' :
          /\ u.email = req[r].email /\ u.username = req[r].username
          /\ u.id = new_user'[r].id /\ u.id >= 1

\* C4 as stated: a signup whose email is the email of no existing row
\* succeeds, whatever its username: its commit inserts the row.
C4_UnusedEmailSucceeds ==
    [][\A r \in Reqs :
          (StepOf(r, "signup", "commit") /\ ~EmailTaken(req[r].email)) =>
              Inserted(r)]_vars

\* C4 amended: a signup that meets no fault and whose email and username are
\* those of no existing row passes the pre-check, inserts its row with a
\* store-assigned id and returns success, and the row is found by its email;
\* when the email is free and the username is taken, the commit responds 500
\* and inserts nothing.
C4_UnusedEmailAndUsernameSucceeds ==
    [][\A r \in Reqs :
          /\ (StepOf(r, "signup", "lookup") /\ ~EmailTaken(req[r].email)) =>
                pc'[r] = "commit"
          /\ (/\ StepOf(r, "signup", "commit")
              /\ ~EmailTaken(req[r].email)
              /\ ~UsernameTaken(req[r].username)) =>
                Inserted(r)
          /\ (/\ StepOf(r, "signup", "commit")
              /\ ~EmailTaken(req[r].email)
              /\ UsernameTaken(req[r].username)) =>
                (resp'[r].status = 500 /\ users' = users)
          /\ StepOf(r, "signup", "refresh") =>
                /\ resp'[r].status = 200
                /\ \E u \in users' :
                      /\ u.email = req[r].email /\ u.username = req[r].username
                      /\ u.id = new_user[r].id /\ u.id >= 1]_vars

\* a signup succeeded although other rows were already stored
C4_Witness ==
    \E r \in Reqs :
        /\ kind[r] = "signup" /\ Responded(r) /\ resp[r].status = 200
        /\ new_user[r].id >= 2
        /\ SelectByEmail(req[r].email).username = req[r].username
        /\ Cardinality(users) >= 2

\* C5: no two user rows have the same email and no two have the same
\* username.
C5_UniqueEmailAndUsername ==
    \A u, v \in users :
        (u.email = v.email \/ u.username = v.username) => u = v

\* two rows are stored and a signup was refused by a unique constraint
C5_Witness ==
    /\ Cardinality(users) >= 2
    /\ \E r \in Reqs :
          /\ kind[r] = "signup" /\ Responded(r)
          /\ resp[r].body = [detail |-> "Internal server error: duplicate key value"]

\* C6: after a signup that ended in an error response, no row inserted by
\* that signup is in the store.
C6_ErrorLeavesNoRow ==
    \A r \in Reqs :
        (kind[r] = "signup" /\ Responded(r) /\ resp[r].status # 200) =>
            ~\E u \in users :
                /\ new_user[r] # Unbound
                /\ u.id = new_user[r].id

\* C7: the response to a login for an email that matches no row and the
\* response to a login with a wrong password are the same in status and body.
C7_LoginFailuresIndistinguishable ==
    \A r1, r2 \in Reqs :
        (/\ kind[r1] = "login" /\ Responded(r1)
         /\ kind[r2] = "login" /\ Responded(r2)
         /\ existing_user[r1] = None
         /\ IsRow(existing_user[r2])
         /\ ~bcrypt_verify(req[r2].password, existing_user[r2].password)) =>
            resp[r1] = resp[r2]

\* one login met no row and another met a row with a different password
C7_Witness ==
    \E r1, r2 \in Reqs :
        /\ kind[r1] = "login" /\ Responded(r1)
        /\ kind[r2] = "login" /\ Responded(r2)
        /\ existing_user[r1] = None
        /\ IsRow(existing_user[r2])
        /\ ~bcrypt_verify(req[r2].password, existing_user[r2].password)

\* C8: once signup(username, email, password) has succeeded, a login with
\* that email and password (meeting no fault) returns 200 with exactly the
\* id, username and email of the row that signup created, and leaves the
\* store unchanged.
C8_LoginAfterSignup ==
    [][\A r, s \in Reqs :
          (/\ StepOf(r, "login", "verify")
           /\ kind[s] = "signup" /\ Responded(s) /\ resp[s].status = 200
           /\ req[s].email = req[r].email
           /\ req[s].password = req[r].password) =>
              /\ resp'[r] = [status |-> 200,
                             body |-> [id |-> new_user[s].id,
                                       username |-> req[s].username,
                                       email |-> req[s].email]]
              /\ users' = users /\ seq' = seq]_vars

\* a login with the credentials of an earlier successful signup has answered
C8_Witness ==
    \E r, s \in Reqs :
        /\ kind[r] = "login" /\ Responded(r) /\ resp[r].status = 200
        /\ kind[s] = "signup" /\ Responded(s) /\ resp[s].status = 200
        /\ req[s].email = req[r].email
        /\ req[s].password = req[r].password
        /\ resp[r].body.id = new_user[s].id

\* C9: when every signup has been answered, get_users returns exactly one
\* entry per successful signup, with that signup's id, username and email,
\* and nothing for the signups that returned an error.
C9_ListMatchesSuccessfulSignups ==
    [][\A g \in Reqs :
          (/\ StepOf(g, "get_users", "list")
           /\ \A s \in Reqs : kind[s] = "signup" => Responded(s)) =>
              resp'[g] =
                 [status |-> 200,
                  body |-> {[id |-> new_user[s].id,
                             username |-> req[s].username,
                             email |-> req[s].email] :
                            s \in {t \in Reqs : /\ kind[t] = "signup"
                                                /\ resp[t].status = 200}}]]_vars

\* C10: a request holds an open session from the start of its handler until
\* its end and none afterwards, on every exit path; once all requests have
\* finished, no session is open.
C10_SessionScopedToRequest ==
    /\ \A r \in Reqs : r \in sessions <=> pc[r] \notin {"idle", "done"}
    /\ (\A r \in Reqs : pc[r] \in {"idle", "done"}) => sessions = {}

\* every request has ended, one with 200, one with 500, and no session is open
C10_Witness ==
    /\ \A r \in Reqs : pc[r] = "done"
    /\ \E r \in Reqs : resp[r].status = 200
    /\ \E r \in Reqs : resp[r].status = 500
    /\ sessions = {}

====
